---- MODULE Spec2Model ----
(***************************************************************************)
(* A model of finnhub_scraper: the update passes of __main__.py running    *)
(* over one SQLAlchemy session (database.py) and the Finnhub client        *)
(* (client.py).  One behaviour is one invocation of main(): the database  *)
(* content the process finds is an input, the task is chosen once.        *)
(***************************************************************************)
EXTENDS Integers, Sequences, FiniteSets, Bags, TLC

(***************************************************************************)
(* Python values.  None, numpy's nan and numbers are kept apart, because   *)
(* the code tests them differently (`not x`, pd.isna(x), x != 0).          *)
(***************************************************************************)
None == [t |-> "None"]

NaN == [t |-> "nan"]

Num(n) == [t |-> "num", v |-> n]

Tuple(p) == [t |-> "tuple", v |-> p]

\* `not x` of Python: None and 0 are falsy.
Falsy(x) == x.t = "None" \/ (x.t = "num" /\ x.v = 0)

\* pandas.isna on a scalar: None and nan.
IsNa(x) == x.t \in {"None", "nan"}

Str(s) == [t |-> "str", v |-> s]

\* A JSON list.
List == [t |-> "list"]

\* A JSON integer beyond the range of a float (json.loads keeps it an int).
Huge == [t |-> "int", v |-> "huge"]

Raise(exc) == [t |-> "raise", exc |-> exc]

\* The strings of the model that float() accepts, with their values.
NumericStrings == ("200" :> 200) @@ ("10" :> 10) @@ ("0" :> 0)

\* Python's float(x): the number, or the exception it raises.
Float(x) ==
    CASE x.t = "num" -> x
      [] x.t = "nan" -> x
      [] x.t = "str" -> IF x.v \in DOMAIN NumericStrings
                            THEN Num(NumericStrings[x.v])
                            ELSE Raise("ValueError")
      [] x.t = "int" -> Raise("OverflowError")
      [] OTHER -> Raise("TypeError")

\* str.upper() on the ticker alphabet of the model.
Upper(s) ==
    CASE s = "aapl" -> "AAPL"
      [] s = "msft" -> "MSFT"
      [] s = "nvda" -> "NVDA"
      [] OTHER -> s

(***************************************************************************)
(* Bounds and input pools.                                                 *)
(***************************************************************************)
\* Longest quarterly feed the provider returns for a symbol.
MaxFeedLen == 2

\* Tickers of the Company table (as listed by the provider: upper case).
\* The financials pass runs over Symbols, the metrics pass over MetricSymbols.
Symbols == {"AAPL", "MSFT"}

MetricSymbols == Symbols \cup {"NVDA"}

REVENUE_CONTRACT == "us-gaap_RevenueFromContractWithCustomerExcludingAssessedTax"

REVENUES == "Revenues"

EPS_DILUTED == "us-gaap_EarningsPerShareDiluted"

NET_INCOME == "us-gaap_NetIncomeLoss"

Item(c, v) == [concept |-> c, value |-> v]

\* Report payloads: section-then-item lists.
ReportUseful == << <<Item(REVENUES, Num(200)), Item(NET_INCOME, Num(10))>>,
                   <<Item("us-gaap_Assets", Num(7))>> >>

ReportNoConcept == << <<Item("us-gaap_Assets", Num(7))>> >>

ReportNullValues == << <<Item(REVENUE_CONTRACT, None), Item(EPS_DILUTED, None)>> >>

Entry(y, q, r) == [year |-> y, quarter |-> q, report |-> r]

\* The (year, quarter) pairs of the model, oldest first: they separate the
\* year-then-quarter order from an order on years or on quarters alone.
Periods == {<<2022, 2>>, <<2023, 1>>, <<2023, 2>>}

EntryPool ==
    {Entry(Num(p[1]), Num(p[2]), ReportUseful) : p \in Periods}
      \cup {Entry(Num(2023), Num(1), ReportNoConcept),
            Entry(Num(2023), Num(2), ReportNullValues),
            Entry(None, Num(1), ReportUseful),
            Entry(Num(2023), Num(0), ReportUseful)}

RECURSIVE SeqsUpTo(_, _)
SeqsUpTo(S, n) ==
    IF n = 0 THEN {<<>>}
    ELSE LET shorter == SeqsUpTo(S, n - 1)
         IN  shorter \cup {Append(s, e) : s \in shorter, e \in S}

FeedPool == SeqsUpTo(EntryPool, MaxFeedLen)


(***************************************************************************)
(* Pure helpers of run_financials_update.                                  *)
(***************************************************************************)
\* Faulty variant: only the first section of the report is scanned.
FlattenMutFirstSection(report) == IF report = <<>> THEN <<>> ELSE Head(report)

RECURSIVE Flatten(_)
\* `for report_type in report.keys(): for item in report[report_type]`.
Flatten(report) ==
    IF report = <<>> THEN <<>> ELSE Head(report) \o Flatten(Tail(report))

NoConcepts ==
    [revenue |-> NaN, earnings_per_share_diluted |-> NaN, net_income_loss |-> NaN]

RECURSIVE ScanItems(_, _)
\* The if/elif chain on item.get("concept"): every match overwrites.
ScanItems(items, acc) ==
    IF items = <<>> THEN acc
    ELSE LET item == Head(items)
             next == IF item.concept \in {REVENUE_CONTRACT, REVENUES}
                         THEN [acc EXCEPT !.revenue = item.value]
                     ELSE IF item.concept = EPS_DILUTED
                         THEN [acc EXCEPT !.earnings_per_share_diluted = item.value]
                     ELSE IF item.concept = NET_INCOME
                         THEN [acc EXCEPT !.net_income_loss = item.value]
                     ELSE acc
         IN  ScanItems(Tail(items), next)

ExtractConcepts(report) == ScanItems(Flatten(report), NoConcepts)

\* Faulty variant: discards the period when any one concept is missing.
NothingUsefulMutAny(c) ==
    IsNa(c.revenue) \/ IsNa(c.net_income_loss) \/ IsNa(c.earnings_per_share_diluted)

\* Faulty variant: tests `is None` where the code has pd.isna.
NothingUsefulMutIsNone(c) ==
    c.revenue.t = "None" /\ c.net_income_loss.t = "None"
        /\ c.earnings_per_share_diluted.t = "None"

\* `pd.isna(revenue) and pd.isna(net_income_loss) and pd.isna(eps)`.
NothingUseful(c) ==
    IsNa(c.revenue) /\ IsNa(c.net_income_loss) /\ IsNa(c.earnings_per_share_diluted)

Ratio(n, d) == [t |-> "ratio", n |-> n, d |-> d]

\* `except (ValueError, TypeError, ZeroDivisionError)` of line 205: these
\* leave net_profit_margin nan, anything else leaves the block.
MarginCaught(r) ==
    IF r.exc \in {"ValueError", "TypeError", "ZeroDivisionError"} THEN NaN ELSE r

\* Faulty variant: the ratio is not turned into a percentage.
NetProfitMarginMutNoPercent(c) ==
    IF ~IsNa(c.net_income_loss) /\ ~IsNa(c.revenue)
    THEN LET float_revenue == Float(c.revenue)
             float_net == Float(c.net_income_loss)
         IN  IF float_revenue.t = "raise" THEN MarginCaught(float_revenue)
             ELSE IF float_revenue.t = "num" /\ float_revenue.v = 0 THEN NaN
             ELSE IF float_net.t = "raise" THEN MarginCaught(float_net)
             ELSE IF float_net.t = "nan" \/ float_revenue.t = "nan" THEN NaN
             ELSE Ratio(float_net.v, float_revenue.v)
    ELSE NaN

\* Lines 199-206: (float(net_income_loss) / float_revenue) * 100, kept as an
\* exact ratio; nan where the code leaves np.nan.
NetProfitMargin(c) ==
    IF ~IsNa(c.net_income_loss) /\ ~IsNa(c.revenue)
    THEN LET float_revenue == Float(c.revenue)
             float_net == Float(c.net_income_loss)
         IN  IF float_revenue.t = "raise" THEN MarginCaught(float_revenue)
             ELSE IF float_revenue.t = "num" /\ float_revenue.v = 0 THEN NaN
             ELSE IF float_net.t = "raise" THEN MarginCaught(float_net)
             ELSE IF float_net.t = "nan" \/ float_revenue.t = "nan" THEN NaN
             ELSE Ratio(float_net.v * 100, float_revenue.v)
    ELSE NaN

\* Faulty variant: `<` where the code has `<=`.
NotNewerMutLt(api_year, api_quarter, db) ==
    api_year < db[1] \/ (api_year = db[1] /\ api_quarter < db[2])

\* `api_year < db_year or (api_year == db_year and api_quarter <= db_quarter)`.
NotNewer(api_year, api_quarter, db) ==
    api_year < db[1] \/ (api_year = db[1] /\ api_quarter <= db[2])

\* The FinancialSnapshot(...) the loop body builds for one feed entry.
FinRow(symbol, data) ==
    LET c == ExtractConcepts(data.report)
    IN  [symbol |-> Upper(symbol),
         year |-> data.year.v,
         quarter |-> data.quarter.v,
         revenue |-> c.revenue,
         earnings_per_share_diluted |-> c.earnings_per_share_diluted,
         net_income_loss |-> c.net_income_loss,
         net_profit_margin |-> NetProfitMargin(c)]

\* The columns of uix_financial_snapshot.
Key(row) == <<row.symbol, row.year, row.quarter>>

PeriodOf(row) == <<row.year, row.quarter>>

Later(p, q) == p[1] > q[1] \/ (p[1] = q[1] /\ p[2] > q[2])

(***************************************************************************)
(* The persistence boundary.                                               *)
(***************************************************************************)
\* The latest stored (year, quarter) of a symbol, None when it has no row.
get_latest_financial_report_period(rows, symbol) ==
    LET mine == {PeriodOf(r) : r \in {x \in BagToSet(rows) : x.symbol = symbol}}
    IN  IF mine = {} THEN None
        ELSE Tuple(CHOOSE p \in mine : \A q \in mine : q = p \/ Later(p, q))

\* SELECT count(*) FROM financial_snapshots WHERE symbol = :symbol.
RowCount(rows, symbol) ==
    LET mine == {r \in BagToSet(rows) : r.symbol = symbol}
    IN  BagCardinality([r \in mine |-> rows[r]])

RECURSIVE SeqToBag(_)
SeqToBag(s) ==
    IF s = <<>> THEN EmptyBag ELSE SetToBag({Head(s)}) (+) SeqToBag(Tail(s))

\* Faulty variant: the table without uix_financial_snapshot.
FlushAcceptsMutNoUnique(objs, rows, known) ==
    \A a \in 1..Len(objs) : objs[a].symbol \in known

\* The INSERTs of a flush: the unique constraint of FinancialSnapshot and the
\* foreign key to companies.symbol decide whether it raises IntegrityError.
FlushAccepts(objs, rows, known) ==
    /\ \A a \in 1..Len(objs) : objs[a].symbol \in known
    /\ \A a, b \in 1..Len(objs) : a # b => Key(objs[a]) # Key(objs[b])
    /\ \A a \in 1..Len(objs) : \A r \in BagToSet(rows) : Key(r) # Key(objs[a])


\* datetime arithmetic of was_updated_in_nightly_window, in whole hours of
\* Pacific local time; window bounds are on the hour, so flooring a timestamp
\* to its hour does not change the comparison.
ToUtc(local) == local + 8

\* Faulty variant: the window always starts at 18:00 of the current day.
WindowStartMutToday(clock) == (clock - (clock % 24)) + 18

\* Faulty variant: before 18:00 the window is the one that began the
\* evening before.
WindowStartMutLastEvening(clock) ==
    LET hour == clock % 24
        midnight == clock - hour
    IN  IF hour < 18 THEN (midnight - 24) + 18 ELSE midnight + 18

WindowStart(clock) ==
    LET hour == clock % 24
        midnight == clock - hour
    IN  IF hour < 2 THEN (midnight - 24) + 18 ELSE midnight + 18

was_updated_in_nightly_window(rows, symbol, clock) ==
    LET start_utc == ToUtc(WindowStart(clock))
        end_utc == ToUtc(WindowStart(clock) + 8)
    IN  \E r \in BagToSet(rows) :
            r.symbol = symbol /\ r.timestamp >= start_utc /\ r.timestamp < end_utc

\* MetricSnapshot(symbol=symbol.upper(), ...), timestamp = func.now() at INSERT.
MetricRow(symbol, clock) == [symbol |-> Upper(symbol), timestamp |-> ToUtc(clock)]

(***************************************************************************)
(* Responses of the provider.                                              *)
(***************************************************************************)
ApiError == [t |-> "error"]

Data(feed) == [t |-> "data", data |-> feed]

\* get_financials_reported: raises, returns nothing usable, or returns a feed.
FinResponses == {ApiError, None} \cup {Data(f) : f \in FeedPool}

\* get_company_basic_financials: raises, returns nothing usable, returns a
\* payload whose 'metric' is not a mapping, or returns a metric mapping.
MetricResponses == {ApiError, None, [t |-> "metric", metric |-> None],
                    [t |-> "metric", metric |-> [t |-> "dict"]]}

Unfixed == [t |-> "any"]

(***************************************************************************)
(* State.                                                                  *)
(***************************************************************************)
VARIABLES
    pc,                       \* where main() is
    task,                     \* args.task
    now,                      \* the wall clock, local hours
    provider,                 \* what the provider answers per symbol, if fixed
    companies,                \* committed Company rows
    fin_rows,                 \* committed FinancialSnapshot rows (a bag)
    metric_rows,              \* committed MetricSnapshot rows (a bag)
    pending,                  \* db.session: objects added and not yet flushed
    symbols_to_process,
    i,                        \* 1-based position of the loop over symbols
    latest_period,
    financials,
    k,                        \* 1-based position of the loop over financials["data"]
    new_reports_for_symbol,
    total_added_count,
    symbols_with_new_reports,
    skipped_count,
    processed_count,
    staged_log,               \* history: rows passed to session.add for this symbol
    db_fault,                 \* history: a persistence error hit this symbol
    api_failed,               \* history: symbols whose API call raised in this run
    had_rows,                 \* history: the symbol had stored rows when it began
    run_no,                   \* history: which invocation of the task this is
    rows_after_first,         \* history: row count per symbol after the first run
    rows_at_start,            \* history: row count per symbol when main() began
    new_count,
    updated_count,
    failed_count,
    in_transaction,           \* history: symbols processed since the transaction began
    fetched_ok,               \* history: symbols whose profile arrived with a name
    API_KEY,                  \* os.getenv("FINNHUB_API_KEY") is set
    DATABASE_URL,             \* os.getenv("DATABASE_URL") is set
    api_calls,                \* history: outbound calls to the provider in this run
    store_queries,            \* history: queries sent to the database in this run
    commits,                  \* history: session.commit() calls of this iteration
    arg,                      \* the argument of a helper run on its own
    result,                   \* what the helper returned
    max_calls,                \* RateLimiter.max_calls
    methods,                  \* the client methods the callers use
    calls,                    \* RateLimiter.calls per decorated method, as ages
    lock,                     \* RateLimiter.lock per decorated method: its holder or 0
    tpc,                      \* where each calling thread is in wrapped()
    top,                      \* the method each thread is calling
    left,                     \* calls each thread has still to make
    sleep_time,               \* what is left of each thread's time.sleep
    outcome,                  \* how each thread's last call ended
    invocations,              \* history: times func ran in each thread's current call
    admitted,                 \* history: ages of the admissions younger than the period
    last_issue                \* history: age of the latest underlying call per method

db == <<companies, fin_rows, metric_rows>>

loop == <<symbols_to_process, i>>

fin_locals == <<latest_period, financials, k, new_reports_for_symbol>>

counters == <<total_added_count, symbols_with_new_reports, skipped_count, processed_count>>

hist == <<staged_log, db_fault, api_failed, had_rows>>

env == <<task, now, provider, run_no, rows_after_first, rows_at_start>>

comp == <<new_count, updated_count, failed_count, in_transaction, fetched_ok>>

io == <<api_calls, store_queries, commits>>

cfg == <<API_KEY, DATABASE_URL>>

\* What no pass of main() writes.
pure == <<arg, result>>

limiter == <<max_calls, methods, calls, lock, tpc, top, left, sleep_time, outcome,
             invocations, admitted, last_issue>>

aside == <<cfg, pure, limiter>>

ext == <<io, aside>>

vars == <<pc, db, pending, loop, fin_locals, counters, hist, env, comp, ext>>


(***************************************************************************)
(* Initial states: main() starts on a database left by earlier runs.       *)
(***************************************************************************)
StoredRows == {FinRow(s, Entry(Num(p[1]), Num(p[2]), ReportUseful)) :
                   s \in Symbols, p \in Periods}

\* Local hours: 01:00, 10:00 and 19:00 of day 1.
NowPool == {25, 34, 43}

\* Snapshots of earlier nights: 20:00 of day 0 and 18:00 of day 1.
StoredSnapshots == {MetricRow(s, c) : s \in MetricSymbols, c \in {20, 42}}

\* A Company row; description is "stale" until a refresh writes the profile.
CompanyRow(symbol, description) == [symbol |-> symbol, description |-> description]

\* The values of companies.symbol, the target of the snapshots' foreign key.
Known(table) == {c.symbol : c \in table}

\* list(session.query(Company.symbol).all()): some order of the table.
Orders(S) ==
    {o \in [1..Cardinality(S) -> S] : \A a, b \in 1..Cardinality(S) : a # b => o[a] # o[b]}

\* The period of @RateLimiter(1, 1.25), in ticks.
PERIOD == 5

\* The methods of FinnHubClient behind a RateLimiter, and all four.
LimitedOps == {"get_company_profile", "get_company_basic_financials",
               "get_financials_reported"}

Ops == LimitedOps \cup {"get_all_stocks"}

\* The rate gate is not looked at: main() is the only caller.
NoLimiter ==
    /\ max_calls = 1
    /\ methods = {}
    /\ calls = [op \in LimitedOps |-> <<>>]
    /\ lock = [op \in LimitedOps |-> 0]
    /\ tpc = <<>>
    /\ top = <<>>
    /\ left = <<>>
    /\ sleep_time = <<>>
    /\ outcome = <<>>
    /\ invocations = <<>>
    /\ admitted = [op \in LimitedOps |-> <<>>]
    /\ last_issue = [op \in Ops |-> PERIOD]

InitLocals ==
    /\ pending = <<>>
    /\ api_calls = 0
    /\ store_queries = 0
    /\ commits = 0
    /\ symbols_to_process = <<>>
    /\ i = 1
    /\ latest_period = None
    /\ financials = None
    /\ k = 1
    /\ new_reports_for_symbol = 0
    /\ total_added_count = 0
    /\ symbols_with_new_reports = {}
    /\ skipped_count = 0
    /\ processed_count = 0
    /\ staged_log = <<>>
    /\ db_fault = FALSE
    /\ api_failed = {}
    /\ had_rows = FALSE
    /\ run_no = 1
    /\ rows_after_first = [s \in Symbols |-> 0]
    /\ new_count = 0
    /\ updated_count = 0
    /\ failed_count = 0
    /\ in_transaction = 0
    /\ fetched_ok = {}

Init ==
    /\ InitLocals
    /\ pc = "import"
    /\ NoLimiter
    /\ arg = None
    /\ result = None
    /\ API_KEY \in BOOLEAN
    /\ DATABASE_URL \in BOOLEAN
    /\ provider = [s \in Symbols |-> Unfixed]
    /\ \/ /\ task = "financials"
          /\ companies = {CompanyRow(s, "stale") : s \in Symbols}
          /\ now = 43
          /\ fin_rows \in {SetToBag(S) : S \in SUBSET StoredRows}
          /\ metric_rows = EmptyBag
       \/ /\ task = "metrics"
          /\ companies = {CompanyRow(s, "stale") : s \in MetricSymbols}
          /\ now \in NowPool
          /\ fin_rows = EmptyBag
          /\ metric_rows \in {SetToBag(S) : S \in SUBSET StoredSnapshots}
    /\ rows_at_start = [s \in Symbols |-> RowCount(fin_rows, s)]

(***************************************************************************)
(* Session operations.                                                     *)
(***************************************************************************)
Symbol == symbols_to_process[i]

InLoop == i <= Len(symbols_to_process)

\* The position after the current feed entry: the next entry, or line 230.
AfterEntry == IF k + 1 > Len(financials.data) THEN "f_commit" ELSE "f_entry"

(***************************************************************************)
(* Start-up: the imports of __main__.py run the module-level checks of     *)
(* database.py (line 15), client.py (line 13) and __main__.py (line 47).   *)
(***************************************************************************)
\* Faulty variant: only the API credential is required.
ConfigCompleteMutKeyOnly == API_KEY

\* Neither `if not DATABASE_URL` nor `if not API_KEY` raises.
ConfigComplete == DATABASE_URL /\ API_KEY

\* The imports finish and main() is entered.
ImportModules ==
    /\ pc = "import"
    /\ ConfigComplete
    /\ pc' = "start"
    /\ UNCHANGED <<ext, db, pending, loop, fin_locals, counters, hist, env, comp>>

\* An import raises ConfigError: the process ends before main() is called.
ImportRaisesConfigError ==
    /\ pc = "import"
    /\ ~ConfigComplete
    /\ pc' = "config_error"
    /\ UNCHANGED <<ext, db, pending, loop, fin_locals, counters, hist, env, comp>>

(***************************************************************************)
(* run_financials_update.                                                  *)
(***************************************************************************)
MainFinancials ==
    /\ pc = "start" /\ task = "financials"
    /\ \E o \in Orders(Known(companies)) : symbols_to_process' = o
    /\ i' = 1
    /\ total_added_count' = 0
    /\ skipped_count' = 0
    /\ symbols_with_new_reports' = {}
    /\ api_failed' = {}
    /\ pc' = "f_loop"
    /\ store_queries' = store_queries + 1
    /\ api_calls' = api_calls
    /\ commits' = 0
    /\ UNCHANGED <<aside, comp, db, pending, fin_locals, processed_count, staged_log, db_fault,
                   had_rows, env>>

\* History kept when a symbol's iteration begins.
BeginSymbolHist ==
    /\ staged_log' = <<>>
    /\ db_fault' = FALSE
    /\ had_rows' = (\E r \in BagToSet(fin_rows) : r.symbol = Upper(Symbol))

\* Line 146 raises (it is outside the try): main() catches, rolls back, closes.
FinLookupFails ==
    /\ pc = "f_loop" /\ InLoop
    /\ pc' = "aborted"
    /\ pending' = <<>>
    /\ db_fault' = TRUE
    /\ store_queries' = store_queries + 1
    /\ api_calls' = api_calls
    /\ commits' = commits
    /\ UNCHANGED <<aside, comp, db, loop, fin_locals, counters, staged_log, api_failed, had_rows, env>>

\* Lines 146-150 and 245-248: the API call raises FinnhubAPIError.
FinApiError ==
    /\ pc = "f_loop" /\ InLoop
    /\ ApiError \in (IF provider[Symbol] = Unfixed THEN FinResponses ELSE {provider[Symbol]})
    /\ latest_period' = get_latest_financial_report_period(fin_rows, Symbol)
    /\ new_reports_for_symbol' = 0
    /\ financials' = None
    /\ skipped_count' = skipped_count + 1
    /\ pending' = <<>>
    /\ api_failed' = api_failed \cup {Symbol}
    /\ BeginSymbolHist
    /\ pc' = "f_next"
    /\ store_queries' = store_queries + 1
    /\ api_calls' = api_calls + 1
    /\ commits' = 0
    /\ UNCHANGED <<aside, comp, db, loop, k, total_added_count,
                   symbols_with_new_reports, processed_count, env>>

\* Lines 152-155: nothing returned, or no "data" key.
FinNoData ==
    /\ pc = "f_loop" /\ InLoop
    /\ None \in (IF provider[Symbol] = Unfixed THEN FinResponses ELSE {provider[Symbol]})
    /\ latest_period' = get_latest_financial_report_period(fin_rows, Symbol)
    /\ new_reports_for_symbol' = 0
    /\ financials' = None
    /\ skipped_count' = skipped_count + 1
    /\ BeginSymbolHist
    /\ pc' = "f_next"
    /\ store_queries' = store_queries + 1
    /\ api_calls' = api_calls + 1
    /\ commits' = 0
    /\ UNCHANGED <<aside, comp, db, pending, loop, k, total_added_count,
                   symbols_with_new_reports, processed_count, api_failed, env>>

\* Lines 146-159: a feed arrives and the loop over financials["data"] starts.
FinFetched ==
    /\ pc = "f_loop" /\ InLoop
    /\ \E r \in (IF provider[Symbol] = Unfixed THEN FinResponses ELSE {provider[Symbol]}) :
          /\ r.t = "data"
          /\ financials' = r
          /\ pc' = IF r.data = <<>> THEN "f_commit" ELSE "f_entry"
    /\ latest_period' = get_latest_financial_report_period(fin_rows, Symbol)
    /\ new_reports_for_symbol' = 0
    /\ k' = 1
    /\ BeginSymbolHist
    /\ store_queries' = store_queries + 1
    /\ api_calls' = api_calls + 1
    /\ commits' = 0
    /\ UNCHANGED <<aside, comp, db, pending, loop, counters, api_failed, env>>

Current == financials.data[k]

\* Faulty variant: a rejected entry ends the walk (`break` for `continue`).
FinSkipMissingMutBreak ==
    /\ pc = "f_entry"
    /\ Falsy(Current.year) \/ Falsy(Current.quarter)
    /\ pc' = "f_commit"
    /\ UNCHANGED <<ext, comp, db, pending, loop, fin_locals, counters, hist, env>>

\* Lines 164-166.
FinSkipMissing ==
    /\ pc = "f_entry"
    /\ Falsy(Current.year) \/ Falsy(Current.quarter)
    /\ k' = k + 1
    /\ pc' = AfterEntry
    /\ UNCHANGED <<ext, comp, db, pending, loop, latest_period, financials,
                   new_reports_for_symbol, counters, hist, env>>

\* Lines 168-174: the boundary check of an entry with year and quarter.
AtBoundary ==
    /\ ~Falsy(latest_period)
    /\ NotNewer(Current.year.v, Current.quarter.v, latest_period.v)

Examined ==
    /\ pc = "f_entry"
    /\ ~(Falsy(Current.year) \/ Falsy(Current.quarter))

\* Line 174: break.
FinBoundaryStop ==
    /\ Examined
    /\ AtBoundary
    /\ pc' = "f_commit"
    /\ UNCHANGED <<ext, comp, db, pending, loop, fin_locals, counters, hist, env>>

\* Lines 195-197: no concept found, continue.
FinDiscard ==
    /\ Examined
    /\ ~AtBoundary
    /\ NothingUseful(ExtractConcepts(Current.report))
    /\ k' = k + 1
    /\ pc' = AfterEntry
    /\ UNCHANGED <<ext, comp, db, pending, loop, latest_period, financials,
                   new_reports_for_symbol, counters, hist, env>>

\* Faulty variant: every staged period is committed at once.
FinStageMutCommitEach ==
    /\ Examined
    /\ ~AtBoundary
    /\ ~NothingUseful(ExtractConcepts(Current.report))
    /\ FlushAccepts(<<FinRow(Symbol, Current)>>, fin_rows, Known(companies))
    /\ fin_rows' = fin_rows (+) SetToBag({FinRow(Symbol, Current)})
    /\ staged_log' = Append(staged_log, FinRow(Symbol, Current))
    /\ new_reports_for_symbol' = new_reports_for_symbol + 1
    /\ commits' = commits + 1
    /\ k' = k + 1
    /\ pc' = AfterEntry
    /\ UNCHANGED <<aside, api_calls, store_queries, comp, companies, metric_rows, pending,
                   loop, latest_period, financials, counters, db_fault, api_failed,
                   had_rows, env>>

\* Lines 208-222: the snapshot is built and added to the session.
FinStage ==
    /\ Examined
    /\ ~AtBoundary
    /\ ~NothingUseful(ExtractConcepts(Current.report))
    /\ pending' = Append(pending, FinRow(Symbol, Current))
    /\ staged_log' = Append(staged_log, FinRow(Symbol, Current))
    /\ new_reports_for_symbol' = new_reports_for_symbol + 1
    /\ k' = k + 1
    /\ pc' = AfterEntry
    /\ UNCHANGED <<ext, comp, db, loop, latest_period, financials, counters, db_fault,
                   api_failed, had_rows, env>>

\* Lines 224-227: building or adding the snapshot raises; session.rollback().
FinStageError ==
    /\ Examined
    /\ ~AtBoundary
    /\ ~NothingUseful(ExtractConcepts(Current.report))
    /\ pending' = <<>>
    /\ db_fault' = TRUE
    /\ k' = k + 1
    /\ pc' = AfterEntry
    /\ UNCHANGED <<ext, comp, db, loop, latest_period, financials, new_reports_for_symbol,
                   counters, staged_log, api_failed, had_rows, env>>

\* Line 230 is false: nothing to commit for this symbol.
FinNoCommit ==
    /\ pc = "f_commit"
    /\ new_reports_for_symbol = 0
    /\ pc' = "f_next"
    /\ UNCHANGED <<ext, comp, db, pending, loop, fin_locals, counters, hist, env>>

\* Lines 232-235.
FinCommitOk ==
    /\ pc = "f_commit"
    /\ new_reports_for_symbol > 0
    /\ FlushAccepts(pending, fin_rows, Known(companies))
    /\ fin_rows' = fin_rows (+) SeqToBag(pending)
    /\ pending' = <<>>
    /\ total_added_count' = total_added_count + new_reports_for_symbol
    /\ symbols_with_new_reports' = symbols_with_new_reports \cup {Symbol}
    /\ pc' = "f_next"
    /\ store_queries' = store_queries
    /\ api_calls' = api_calls
    /\ commits' = commits + 1
    /\ UNCHANGED <<aside, comp, companies, metric_rows, loop, fin_locals,
                   skipped_count, processed_count, hist, env>>

\* Faulty variant: the IntegrityError handler without session.rollback().
FinCommitIntegrityMutNoRollback ==
    /\ pc = "f_commit"
    /\ new_reports_for_symbol > 0
    /\ ~FlushAccepts(pending, fin_rows, Known(companies))
    /\ pc' = "f_next"
    /\ store_queries' = store_queries
    /\ api_calls' = api_calls
    /\ commits' = commits + 1
    /\ UNCHANGED <<aside, comp, db, pending, loop, fin_locals, counters, hist, env>>

\* Lines 236-240: the flush raises IntegrityError; session.rollback().
FinCommitIntegrity ==
    /\ pc = "f_commit"
    /\ new_reports_for_symbol > 0
    /\ ~FlushAccepts(pending, fin_rows, Known(companies))
    /\ pending' = <<>>
    /\ pc' = "f_next"
    /\ store_queries' = store_queries
    /\ api_calls' = api_calls
    /\ commits' = commits + 1
    /\ UNCHANGED <<aside, comp, db, loop, fin_locals, counters, hist, env>>

\* Lines 241-243: the commit raises something else; session.rollback().
FinCommitError ==
    /\ pc = "f_commit"
    /\ new_reports_for_symbol > 0
    /\ pending' = <<>>
    /\ db_fault' = TRUE
    /\ pc' = "f_next"
    /\ store_queries' = store_queries
    /\ api_calls' = api_calls
    /\ commits' = commits + 1
    /\ UNCHANGED <<aside, comp, db, loop, fin_locals, counters, staged_log,
                   api_failed, had_rows, env>>

\* Line 142: the for statement takes the next symbol; the locals of the
\* finished iteration are dead from here on.
FinNextSymbol ==
    /\ pc = "f_next"
    /\ i' = i + 1
    /\ pc' = "f_loop"
    /\ latest_period' = None
    /\ financials' = None
    /\ k' = 1
    /\ new_reports_for_symbol' = 0
    /\ staged_log' = <<>>
    /\ db_fault' = FALSE
    /\ had_rows' = FALSE
    /\ store_queries' = store_queries
    /\ api_calls' = api_calls
    /\ commits' = 0
    /\ UNCHANGED <<aside, comp, db, pending, symbols_to_process, counters, api_failed, env>>

\* Lines 254-263 and main()'s finally.
FinFinish ==
    /\ pc = "f_loop" /\ ~InLoop
    /\ pc' = "done"
    /\ rows_after_first' =
          IF run_no = 1 THEN [s \in Symbols |-> RowCount(fin_rows, s)]
          ELSE rows_after_first
    /\ UNCHANGED <<ext, comp, db, pending, loop, fin_locals, counters, hist, task, now,
                   provider, run_no, rows_at_start>>

FinNext ==
    \/ MainFinancials
    \/ FinLookupFails
    \/ FinApiError
    \/ FinNoData
    \/ FinFetched
    \/ FinSkipMissing
    \/ FinBoundaryStop
    \/ FinDiscard
    \/ FinStage
    \/ FinStageError
    \/ FinNoCommit
    \/ FinCommitOk
    \/ FinCommitIntegrity
    \/ FinCommitError
    \/ FinNextSymbol
    \/ FinFinish

(***************************************************************************)
(* run_metrics_update.                                                     *)
(***************************************************************************)
MainMetrics ==
    /\ pc = "start" /\ task = "metrics"
    /\ \E o \in Orders(Known(companies)) : symbols_to_process' = o
    /\ i' = 1
    /\ processed_count' = 0
    /\ skipped_count' = 0
    /\ api_failed' = {}
    /\ staged_log' = <<>>
    /\ pc' = "m_loop"
    /\ store_queries' = store_queries + 1
    /\ api_calls' = api_calls
    /\ commits' = 0
    /\ UNCHANGED <<aside, comp, db, pending, fin_locals, total_added_count,
                   symbols_with_new_reports, db_fault, had_rows, env>>

\* Line 71 raises (it is outside the try): main() catches, rolls back, closes.
MetWindowQueryFails ==
    /\ pc = "m_loop" /\ InLoop
    /\ pc' = "aborted"
    /\ pending' = <<>>
    /\ db_fault' = TRUE
    /\ store_queries' = store_queries + 1
    /\ api_calls' = api_calls
    /\ commits' = commits
    /\ UNCHANGED <<aside, comp, db, loop, fin_locals, counters, staged_log, api_failed, had_rows, env>>

\* Lines 71-75.
MetSkipWindow ==
    /\ pc = "m_loop" /\ InLoop
    /\ was_updated_in_nightly_window(metric_rows, Symbol, now)
    /\ skipped_count' = skipped_count + 1
    /\ i' = i + 1
    /\ store_queries' = store_queries + 1
    /\ api_calls' = api_calls
    /\ commits' = commits
    /\ UNCHANGED <<aside, comp, pc, db, pending, symbols_to_process, fin_locals, total_added_count,
                   symbols_with_new_reports, processed_count, hist, env>>

\* Faulty variant: the handler also rolls the session back.
MetApiErrorMutRollback ==
    /\ pc = "m_loop" /\ InLoop
    /\ ~was_updated_in_nightly_window(metric_rows, Symbol, now)
    /\ api_failed' = api_failed \cup {Symbol}
    /\ pending' = <<>>
    /\ i' = i + 1
    /\ store_queries' = store_queries + 1
    /\ api_calls' = api_calls + 1
    /\ commits' = commits
    /\ UNCHANGED <<aside, comp, pc, db, symbols_to_process, fin_locals, counters,
                   staged_log, db_fault, had_rows, env>>

\* Lines 80 and 116-117: the API call raises FinnhubAPIError.
MetApiError ==
    /\ pc = "m_loop" /\ InLoop
    /\ ~was_updated_in_nightly_window(metric_rows, Symbol, now)
    /\ api_failed' = api_failed \cup {Symbol}
    /\ i' = i + 1
    /\ store_queries' = store_queries + 1
    /\ api_calls' = api_calls + 1
    /\ commits' = commits
    /\ UNCHANGED <<aside, comp, pc, db, pending, symbols_to_process, fin_locals, counters,
                   staged_log, db_fault, had_rows, env>>

\* Lines 82-84 (nothing returned, no 'metric' key) and lines 86-90 with
\* 118-119 ('metric' is not a mapping: .get raises, the handler prints).
MetNoMetric ==
    /\ pc = "m_loop" /\ InLoop
    /\ ~was_updated_in_nightly_window(metric_rows, Symbol, now)
    /\ \E r \in MetricResponses :
          r.t = "None" \/ (r.t = "metric" /\ r.metric.t # "dict")
    /\ i' = i + 1
    /\ store_queries' = store_queries + 1
    /\ api_calls' = api_calls + 1
    /\ commits' = commits
    /\ UNCHANGED <<aside, comp, pc, db, pending, symbols_to_process, fin_locals, counters, hist, env>>

\* Lines 86-114: the snapshot is built and added to the session.
MetStage ==
    /\ pc = "m_loop" /\ InLoop
    /\ ~was_updated_in_nightly_window(metric_rows, Symbol, now)
    /\ \E r \in MetricResponses : r.t = "metric" /\ r.metric.t = "dict"
    /\ pending' = Append(pending, MetricRow(Symbol, now))
    /\ staged_log' = Append(staged_log, MetricRow(Symbol, now))
    /\ processed_count' = processed_count + 1
    /\ i' = i + 1
    /\ store_queries' = store_queries + 1
    /\ api_calls' = api_calls + 1
    /\ commits' = commits
    /\ UNCHANGED <<aside, comp, pc, db, symbols_to_process, fin_locals, total_added_count,
                   symbols_with_new_reports, skipped_count, db_fault, api_failed,
                   had_rows, env>>

\* Lines 121-124.
MetCommitOk ==
    /\ pc = "m_loop" /\ ~InLoop
    /\ processed_count > 0
    /\ \A a \in 1..Len(pending) : pending[a].symbol \in Known(companies)
    /\ metric_rows' = metric_rows (+) SeqToBag(pending)
    /\ pending' = <<>>
    /\ pc' = "done"
    /\ store_queries' = store_queries
    /\ api_calls' = api_calls
    /\ commits' = commits + 1
    /\ UNCHANGED <<aside, comp, companies, fin_rows, loop, fin_locals, counters, hist, env>>

\* Line 123 raises (it is outside any try): main() catches, rolls back, closes.
MetCommitFails ==
    /\ pc = "m_loop" /\ ~InLoop
    /\ processed_count > 0
    /\ pending' = <<>>
    /\ db_fault' = TRUE
    /\ pc' = "aborted"
    /\ store_queries' = store_queries
    /\ api_calls' = api_calls
    /\ commits' = commits + 1
    /\ UNCHANGED <<aside, comp, db, loop, fin_locals, counters, staged_log, api_failed, had_rows, env>>

\* Lines 125-126.
MetNothing ==
    /\ pc = "m_loop" /\ ~InLoop
    /\ processed_count = 0
    /\ pc' = "done"
    /\ UNCHANGED <<ext, comp, db, pending, loop, fin_locals, counters, hist, env>>

MetNext ==
    \/ MainMetrics
    \/ MetWindowQueryFails
    \/ MetSkipWindow
    \/ MetApiError
    \/ MetNoMetric
    \/ MetStage
    \/ MetCommitOk
    \/ MetCommitFails
    \/ MetNothing

Next ==
    \/ ImportModules
    \/ ImportRaisesConfigError
    \/ FinNext
    \/ MetNext


Spec == Init /\ [][Next]_vars


(***************************************************************************)
(* Two invocations in a row of the financials task, over a database that   *)
(* raises no error and a provider whose answer per symbol does not change. *)
(***************************************************************************)
\* Invocations of main() in one behaviour.
MaxRuns == 2

InitTwice ==
    /\ InitLocals
    /\ pc = "start"
    /\ NoLimiter
    /\ arg = None
    /\ result = None
    /\ API_KEY = TRUE
    /\ DATABASE_URL = TRUE
    /\ task = "financials"
    /\ now = 43
    /\ companies = {CompanyRow("AAPL", "stale")}
    /\ metric_rows = EmptyBag
    /\ fin_rows \in {SetToBag(S) : S \in SUBSET {r \in StoredRows : r.symbol = "AAPL"}}
    /\ rows_at_start = [s \in Symbols |-> RowCount(fin_rows, s)]
    /\ provider \in [Symbols -> FinResponses]
    /\ \A s \in Symbols \ Known(companies) : provider[s] = None

\* main() is started again: a new process, a new session.
RunAgain ==
    /\ pc = "done"
    /\ run_no < MaxRuns
    /\ run_no' = run_no + 1
    /\ pc' = "start"
    /\ pending' = <<>>
    /\ i' = 1
    /\ symbols_to_process' = <<>>
    /\ store_queries' = 0
    /\ api_calls' = 0
    /\ commits' = 0
    /\ UNCHANGED <<aside, comp, db, fin_locals, counters, hist, task, now, provider,
                   rows_after_first, rows_at_start>>

NextTwice ==
    \/ MainFinancials
    \/ FinApiError
    \/ FinNoData
    \/ FinFetched
    \/ FinSkipMissing
    \/ FinBoundaryStop
    \/ FinDiscard
    \/ FinStage
    \/ FinNoCommit
    \/ FinCommitOk
    \/ FinCommitIntegrity
    \/ FinNextSymbol
    \/ FinFinish
    \/ RunAgain

SpecTwice == InitTwice /\ [][NextTwice]_vars

(***************************************************************************)
(* The metrics task invoked again and again, at the same hour or an hour   *)
(* later, over the snapshots the earlier invocations committed.            *)
(***************************************************************************)
\* Local hours at which the first invocation starts: 01:00, 09:00, 17:00
\* and 19:00 of day 1.
RepeatNowPool == {25, 33, 41, 43}

\* Snapshots of earlier runs: 20:00 of day 0, 01:00 and 09:00 of day 1.
EarlierSnapshots == {MetricRow(s, c) : s \in Symbols, c \in {20, 25, 33}}

\* Hours between two invocations.
Pauses == {0, 1}

InitRepeat ==
    /\ InitLocals
    /\ pc = "start"
    /\ NoLimiter
    /\ arg = None
    /\ result = None
    /\ API_KEY = TRUE
    /\ DATABASE_URL = TRUE
    /\ task = "metrics"
    /\ now \in RepeatNowPool
    /\ companies = {CompanyRow(s, "stale") : s \in Symbols}
    /\ fin_rows = EmptyBag
    /\ metric_rows \in {SetToBag(S) :
                            S \in SUBSET {r \in EarlierSnapshots : r.timestamp <= ToUtc(now)}}
    /\ rows_at_start = [s \in Symbols |-> 0]
    /\ provider = [s \in Symbols |-> Unfixed]

\* main() is started again after the run ended or was aborted: a new
\* process, a new session, a later clock.
MetRunAgain ==
    /\ pc \in {"done", "aborted"}
    /\ task = "metrics"
    /\ run_no < MaxRuns
    /\ run_no' = run_no + 1
    /\ \E pause \in Pauses : now' = now + pause
    /\ pc' = "start"
    /\ pending' = <<>>
    /\ i' = 1
    /\ symbols_to_process' = <<>>
    /\ db_fault' = FALSE
    /\ store_queries' = 0
    /\ api_calls' = 0
    /\ commits' = 0
    /\ UNCHANGED <<aside, comp, db, fin_locals, counters, staged_log, api_failed, had_rows,
                   task, provider, rows_after_first, rows_at_start>>

NextRepeat ==
    \/ MetNext
    \/ MetRunAgain

SpecRepeat == InitRepeat /\ [][NextRepeat]_vars

(***************************************************************************)
(* run_companies_update.  The provider lists tickers 1..n; the i-th ticker *)
(* of the list is the number i.                                            *)
(***************************************************************************)
\* `i % 200 == 0` of line 327.
COMMIT_EVERY == 200

\* Longest list get_all_stocks returns.
NumListed == 202

ListLengths == {2, 3, NumListed}

\* Positions of the list whose profile fetch may end otherwise than with a
\* valid profile: early ones, and the ones around the first batch commit.
Troubled == {2, 3, COMMIT_EVERY + 1, COMMIT_EVERY + 2}

InitCompanies ==
    /\ InitLocals
    /\ pc = "start"
    /\ NoLimiter
    /\ arg = None
    /\ result = None
    /\ API_KEY = TRUE
    /\ DATABASE_URL = TRUE
    /\ task = "companies"
    /\ now = 43
    /\ provider = [s \in Symbols |-> Unfixed]
    /\ fin_rows = EmptyBag
    /\ metric_rows = EmptyBag
    /\ rows_at_start = [s \in Symbols |-> 0]
    /\ companies \in {{}, {CompanyRow(1, "stale")},
                      {CompanyRow(1, "stale"), CompanyRow(3, "stale")}}

\* Lines 272-282: the list arrives.
MainCompanies ==
    /\ pc = "start" /\ task = "companies"
    /\ \E n \in ListLengths : symbols_to_process' = [a \in 1..n |-> a]
    /\ i' = 1
    /\ new_count' = 0
    /\ updated_count' = 0
    /\ failed_count' = 0
    /\ pc' = "c_loop"
    /\ store_queries' = store_queries
    /\ api_calls' = api_calls + 1
    /\ commits' = 0
    /\ UNCHANGED <<aside, db, pending, fin_locals, counters, hist, env, in_transaction, fetched_ok>>

\* Lines 274-276: get_all_stocks raises, the task returns.
CompListFails ==
    /\ pc = "start" /\ task = "companies"
    /\ pc' = "done"
    /\ store_queries' = store_queries
    /\ api_calls' = api_calls + 1
    /\ commits' = commits
    /\ UNCHANGED <<aside, comp, db, pending, loop, fin_locals, counters, hist, env>>

\* session.commit(): the pending inserts and updates reach the table.
Flushed(table, changes) ==
    LET touched == {changes[a].symbol : a \in 1..Len(changes)}
    IN  {c \in table : c.symbol \notin touched}
          \cup {CompanyRow(sym, "fresh") : sym \in touched}

\* `i > 0 and i % 200 == 0` with enumerate's 0-based i (the model's i - 1).
BatchCommitDue == (i - 1) > 0 /\ (i - 1) % COMMIT_EVERY = 0

\* Lines 290-329: a valid profile; the row is updated or added, and the
\* batch is committed when the position is a multiple of 200.
CompUpsert ==
    /\ pc = "c_loop" /\ InLoop
    /\ LET change == [op |-> IF Symbol \in Known(companies) THEN "update" ELSE "insert",
                      symbol |-> Symbol]
       IN  /\ IF Symbol \in Known(companies)
              THEN updated_count' = updated_count + 1 /\ new_count' = new_count
              ELSE new_count' = new_count + 1 /\ updated_count' = updated_count
           /\ IF BatchCommitDue
              THEN /\ companies' = Flushed(companies, Append(pending, change))
                   /\ pending' = <<>>
                   /\ in_transaction' = 0
              ELSE /\ companies' = companies
                   /\ pending' = Append(pending, change)
                   /\ in_transaction' = in_transaction + 1
    /\ fetched_ok' = fetched_ok \cup {Symbol}
    /\ i' = i + 1
    /\ store_queries' = store_queries + 1
    /\ api_calls' = api_calls + 1
    /\ commits' = commits
    /\ UNCHANGED <<aside, pc, fin_rows, metric_rows, symbols_to_process, fin_locals, counters,
                   hist, env, failed_count>>

\* Lines 295-298: no profile or no name; `continue` (line 327 is not reached).
CompInvalidProfile ==
    /\ pc = "c_loop" /\ InLoop
    /\ i \in Troubled
    /\ failed_count' = failed_count + 1
    /\ in_transaction' = in_transaction + 1
    /\ i' = i + 1
    /\ store_queries' = store_queries + 1
    /\ api_calls' = api_calls + 1
    /\ commits' = commits
    /\ UNCHANGED <<aside, pc, db, pending, symbols_to_process, fin_locals, counters, hist, env,
                   new_count, updated_count, fetched_ok>>

\* Lines 331-334: get_company_profile raises FinnhubAPIError; session.rollback().
CompApiError ==
    /\ pc = "c_loop" /\ InLoop
    /\ i \in Troubled
    /\ failed_count' = failed_count + 1
    /\ pending' = <<>>
    /\ in_transaction' = 0
    /\ api_failed' = api_failed \cup {Symbol}
    /\ i' = i + 1
    /\ store_queries' = store_queries + 1
    /\ api_calls' = api_calls + 1
    /\ commits' = commits
    /\ UNCHANGED <<aside, pc, db, symbols_to_process, fin_locals, counters, staged_log, db_fault,
                   had_rows, env, new_count, updated_count, fetched_ok>>

\* Lines 335-338: anything else raised inside the try (the query of line 290);
\* session.rollback().
CompUnhandled ==
    /\ pc = "c_loop" /\ InLoop
    /\ i \in Troubled
    /\ failed_count' = failed_count + 1
    /\ pending' = <<>>
    /\ in_transaction' = 0
    /\ db_fault' = TRUE
    /\ i' = i + 1
    /\ store_queries' = store_queries + 1
    /\ api_calls' = api_calls
    /\ commits' = commits
    /\ UNCHANGED <<aside, pc, db, symbols_to_process, fin_locals, counters, staged_log, api_failed,
                   had_rows, env, new_count, updated_count, fetched_ok>>

\* Lines 341-343.
CompFinalCommit ==
    /\ pc = "c_loop" /\ ~InLoop
    /\ companies' = Flushed(companies, pending)
    /\ pending' = <<>>
    /\ in_transaction' = 0
    /\ pc' = "done"
    /\ store_queries' = store_queries
    /\ api_calls' = api_calls
    /\ commits' = commits + 1
    /\ UNCHANGED <<aside, fin_rows, metric_rows, loop, fin_locals, counters, hist, env,
                   new_count, updated_count, failed_count, fetched_ok>>

\* Lines 344-346: the final commit raises; session.rollback().
CompFinalCommitFails ==
    /\ pc = "c_loop" /\ ~InLoop
    /\ pending' = <<>>
    /\ in_transaction' = 0
    /\ db_fault' = TRUE
    /\ pc' = "done"
    /\ store_queries' = store_queries
    /\ api_calls' = api_calls
    /\ commits' = commits + 1
    /\ UNCHANGED <<aside, db, loop, fin_locals, counters, staged_log, api_failed, had_rows, env,
                   new_count, updated_count, failed_count, fetched_ok>>

NextCompanies ==
    \/ MainCompanies
    \/ CompListFails
    \/ CompUpsert
    \/ CompInvalidProfile
    \/ CompApiError
    \/ CompUnhandled
    \/ CompFinalCommit
    \/ CompFinalCommitFails

SpecCompanies == InitCompanies /\ [][NextCompanies]_vars

(***************************************************************************)
(* Helpers of the passes run on their own, over pools of provider values.  *)
(***************************************************************************)
\* No pass runs: the session and the tables stay empty.
NoPass ==
    /\ InitLocals
    /\ API_KEY = TRUE
    /\ DATABASE_URL = TRUE
    /\ now = 43
    /\ provider = [s \in Symbols |-> Unfixed]
    /\ companies = {}
    /\ fin_rows = EmptyBag
    /\ metric_rows = EmptyBag
    /\ rows_at_start = [s \in Symbols |-> 0]
    /\ result = None

\* Values of a concept after the scan of lines 176-193.
ConceptValues ==
    {None, NaN, Num(0), Num(10), Num(200), Str("200"), Str("0"), Str("abc")}

InitMargin ==
    /\ NoPass
    /\ task = "margin"
    /\ NoLimiter
    /\ pc = "margin"
    /\ arg \in [revenue : ConceptValues,
                earnings_per_share_diluted : {NaN, Num(3)},
                net_income_loss : ConceptValues]

\* Lines 199-206 on the three concepts of one entry.
ComputeMargin ==
    /\ pc = "margin"
    /\ result' = NetProfitMargin(arg)
    /\ pc' = "returned"
    /\ UNCHANGED <<arg, cfg, limiter, io, db, pending, loop, fin_locals, counters, hist, env, comp>>

SpecMargin == InitMargin /\ [][ComputeMargin]_vars

\* Most line items in one section of a report.
MaxItems == 2

\* Line items: both revenue aliases, concepts with a number and with a null
\* value, and a concept the scan does not look for.
ScanItemPool ==
    {Item(REVENUE_CONTRACT, Num(200)), Item(REVENUES, Num(10)), Item(REVENUES, None),
     Item(EPS_DILUTED, Num(10)), Item(EPS_DILUTED, None),
     Item(NET_INCOME, Num(200)),
     Item("us-gaap_Assets", Num(7))}

\* Reports of two sections, each possibly empty.
ScanReports ==
    {<<first, second>> : first, second \in SeqsUpTo(ScanItemPool, MaxItems)}

InitScan ==
    /\ NoPass
    /\ task = "scan"
    /\ NoLimiter
    /\ pc = "scan"
    /\ arg \in ScanReports

\* Lines 176-193 on the report of one entry.
ScanReport ==
    /\ pc = "scan"
    /\ result' = ExtractConcepts(arg)
    /\ pc' = "returned"
    /\ UNCHANGED <<arg, cfg, limiter, io, db, pending, loop, fin_locals, counters, hist, env, comp>>

SpecScan == InitScan /\ [][ScanReport]_vars

\* KEY_MAPPING, in the order of the dict.
KEY_MAPPING ==
    << <<"52WeekHigh", "week52_high">>,
       <<"52WeekHighDate", "week52_high_date">>,
       <<"52WeekLow", "week52_low">>,
       <<"3MonthAverageTradingVolume", "month3_average_trading_volume">>,
       <<"dividendPerShareTTM", "dividend_per_share_ttm">>,
       <<"10DayAverageTradingVolume", "day10_average_trading_volume">>,
       <<"beta", "beta">>,
       <<"epsTTM", "eps_ttm">>,
       <<"epsGrowth5Y", "eps_growth_5y">>,
       <<"revenueGrowth5Y", "revenue_growth_5y">>,
       <<"focfCagr5Y", "focf_cagr_5y">>,
       <<"netProfitMarginTTM", "net_profit_margin_ttm">>,
       <<"grossMarginTTM", "gross_margin_ttm">>,
       <<"operatingMarginTTM", "operating_margin_ttm">>,
       <<"roeTTM", "roe_ttm">>,
       <<"roaTTM", "roa_ttm">>,
       <<"roiTTM", "roi_ttm">>,
       <<"cashFlowPerShareTTM", "cash_flow_per_share_ttm">>,
       <<"peTTM", "pe_ttm">>,
       <<"pfcfShareTTM", "pfcf_share_ttm">>,
       <<"psTTM", "ps_ttm">>,
       <<"pbTTM", "pb_ttm">>,
       <<"currentDividendYieldTTM", "current_dividend_yield_ttm">>,
       <<"dividendGrowthRate5Y", "dividend_growth_rate_5y">>,
       <<"payoutRatioTTM", "payout_ratio_ttm">>,
       <<"longTermDebt/equityQuarterly", "long_term_debt_equity_quarterly">>,
       <<"currentRatioQuarterly", "current_ratio_quarterly">> >>

DbKeys == {KEY_MAPPING[a][2] : a \in 1..Len(KEY_MAPPING)}

\* The dates of the model that match "%Y-%m-%d".
ValidDates == {"2024-01-15"}

\* datetime.strptime(value, "%Y-%m-%d").date(), or the exception it raises.
ParseDate(x) ==
    IF x.t = "str"
    THEN IF x.v \in ValidDates THEN [t |-> "date", v |-> x.v] ELSE Raise("ValueError")
    ELSE Raise("TypeError")

\* metrics_data.get(api_key, None).
Get(metrics_data, api_key) ==
    IF api_key \in DOMAIN metrics_data THEN metrics_data[api_key] ELSE None

\* `except (ValueError, TypeError)` of lines 99 and 105: the field becomes
\* None; any other exception leaves the loop.
FieldCaught(r) ==
    IF r.t = "raise" /\ r.exc \in {"ValueError", "TypeError"} THEN None ELSE r

\* Lines 90-107 for one entry of KEY_MAPPING.
ExtractField(db_key, value) ==
    IF value.t = "None" THEN None
    ELSE IF db_key = "week52_high_date" THEN FieldCaught(ParseDate(value))
    ELSE FieldCaught(Float(value))

\* Lines 88-107 and 118-119: snapshot_data, or the exception that reaches the
\* handler of line 118 (no snapshot is built for the symbol).
ExtractSnapshot(metrics_data) ==
    LET field == [a \in 1..Len(KEY_MAPPING) |->
                     ExtractField(KEY_MAPPING[a][2], Get(metrics_data, KEY_MAPPING[a][1]))]
        raised == {a \in 1..Len(KEY_MAPPING) : field[a].t = "raise"}
    IN  IF raised # {}
        THEN field[CHOOSE a \in raised : \A b \in raised : a <= b]
        ELSE [t |-> "snapshot_data",
              data |-> [db_key \in DbKeys |->
                           field[CHOOSE a \in 1..Len(KEY_MAPPING) :
                                     KEY_MAPPING[a][2] = db_key]]]

\* The source keys the inputs of the model set; all others are absent.
ExercisedKeys == {"52WeekHigh", "52WeekHighDate", "beta"}

MetricValues == {None, Num(15), Str("10"), Str("abc"), Str("2024-01-15"), List, Huge}

MetricInputs == UNION {[K -> MetricValues] : K \in SUBSET ExercisedKeys}

InitExtract ==
    /\ NoPass
    /\ task = "extract"
    /\ NoLimiter
    /\ pc = "extract"
    /\ arg \in MetricInputs

\* Lines 86-107 on one 'metric' mapping.
ExtractMetrics ==
    /\ pc = "extract"
    /\ result' = ExtractSnapshot(arg)
    /\ pc' = "returned"
    /\ UNCHANGED <<arg, cfg, limiter, io, db, pending, loop, fin_locals, counters, hist, env, comp>>

SpecExtract == InitExtract /\ [][ExtractMetrics]_vars

(***************************************************************************)
(* client.py: RateLimiter.__call__.  SpecLimiter has concurrent callers of *)
(* one decorated method, SpecClient one caller (main()'s thread) of the    *)
(* four methods of FinnHubClient.  Time is in ticks of a quarter of a     *)
(* second; a timestamp is kept as its age, and an age that has reached the *)
(* period stops growing (the code only asks whether now - t < period).     *)
(***************************************************************************)
\* Threads calling the client's methods.
NumThreads == 2

\* Calls each thread makes.
CallsEach == 2

\* The values of max_calls a limiter is built with (the client uses 1).
MaxCallsPool == {1, 2}

Threads == 1..NumThreads

\* Faulty variant: nothing is ever dropped from the log.
PruneMutKeepAll(ages) == ages

RECURSIVE Prune(_)
\* [t for t in self.calls if now - t < self.period].
Prune(ages) ==
    IF ages = <<>> THEN <<>>
    ELSE IF Head(ages) < PERIOD THEN <<Head(ages)>> \o Prune(Tail(ages))
    ELSE Prune(Tail(ages))

\* Faulty variant: the caller does not wait for the oldest call to expire.
SleepTimeMutNone(ages) == 0

\* sleep_time = self.period - (now - self.calls[0]); slept only if positive.
SleepTime(ages) == IF PERIOD - ages[1] > 0 THEN PERIOD - ages[1] ELSE 0

\* One tick later.
Older(ages) == [a \in 1..Len(ages) |-> IF ages[a] < PERIOD THEN ages[a] + 1 ELSE PERIOD]

InitLimiter ==
    /\ NoPass
    /\ task = "limiter"
    /\ pc = "threads"
    /\ arg = None
    /\ max_calls \in MaxCallsPool
    /\ methods = {"get_financials_reported"}
    /\ calls = [op \in LimitedOps |-> <<>>]
    /\ lock = [op \in LimitedOps |-> 0]
    /\ tpc = [t \in Threads |-> "idle"]
    /\ top = [t \in Threads |-> "get_all_stocks"]
    /\ left = [t \in Threads |-> CallsEach]
    /\ sleep_time = [t \in Threads |-> 0]
    /\ outcome = [t \in Threads |-> "none"]
    /\ invocations = [t \in Threads |-> 0]
    /\ admitted = [op \in LimitedOps |-> <<>>]
    /\ last_issue = [op \in Ops |-> PERIOD]

passes == <<pc, cfg, pure, io, db, pending, loop, fin_locals, counters, hist, env, comp>>

\* A thread calls a method of the client: wrapped() for the decorated ones,
\* the method itself for get_all_stocks.
BeginCall(t) ==
    /\ tpc[t] = "idle" /\ left[t] > 0
    /\ \E op \in methods :
          /\ top' = [top EXCEPT ![t] = op]
          /\ tpc' = [tpc EXCEPT ![t] = IF op \in LimitedOps THEN "acquire" ELSE "call"]
    /\ invocations' = [invocations EXCEPT ![t] = 0]
    /\ outcome' = [outcome EXCEPT ![t] = "none"]
    /\ UNCHANGED <<passes, max_calls, methods, calls, lock, left, sleep_time, admitted, last_issue>>

\* Faulty variant: the log is read and written without taking the lock.
AcquireMutNoLock(t) ==
    /\ tpc[t] = "acquire"
    /\ lock' = [lock EXCEPT ![top[t]] = t]
    /\ LET kept == Prune(calls[top[t]])
       IN  /\ calls' = [calls EXCEPT ![top[t]] = kept]
           /\ IF Len(kept) >= max_calls
              THEN /\ sleep_time' = [sleep_time EXCEPT ![t] = SleepTime(kept)]
                   /\ tpc' = [tpc EXCEPT ![t] = "sleep"]
              ELSE /\ sleep_time' = sleep_time
                   /\ tpc' = [tpc EXCEPT ![t] = "append"]
    /\ UNCHANGED <<passes, max_calls, methods, top, left, outcome, invocations, admitted, last_issue>>

\* Lines 29-37: the lock is taken, the log pruned, and a full window sends
\* the caller to sleep with the lock held.
Acquire(t) ==
    /\ tpc[t] = "acquire"
    /\ lock[top[t]] = 0
    /\ lock' = [lock EXCEPT ![top[t]] = t]
    /\ LET kept == Prune(calls[top[t]])
       IN  /\ calls' = [calls EXCEPT ![top[t]] = kept]
           /\ IF Len(kept) >= max_calls
              THEN /\ sleep_time' = [sleep_time EXCEPT ![t] = SleepTime(kept)]
                   /\ tpc' = [tpc EXCEPT ![t] = "sleep"]
              ELSE /\ sleep_time' = sleep_time
                   /\ tpc' = [tpc EXCEPT ![t] = "append"]
    /\ UNCHANGED <<passes, max_calls, methods, top, left, outcome, invocations, admitted, last_issue>>

\* Lines 39-40: the sleep is over (it lasts at least sleep_time); the log is
\* pruned again.
Wake(t) ==
    /\ tpc[t] = "sleep"
    /\ sleep_time[t] = 0
    /\ calls' = [calls EXCEPT ![top[t]] = Prune(calls[top[t]])]
    /\ tpc' = [tpc EXCEPT ![t] = "append"]
    /\ UNCHANGED <<passes, max_calls, methods, lock, top, left, sleep_time, outcome, invocations,
                   admitted, last_issue>>

\* Faulty variant: the lock is not released after the timestamp is recorded.
RecordMutKeepsLock(t) ==
    /\ tpc[t] = "append"
    /\ calls' = [calls EXCEPT ![top[t]] = Append(calls[top[t]], 0)]
    /\ admitted' = [admitted EXCEPT ![top[t]] = Append(admitted[top[t]], 0)]
    /\ tpc' = [tpc EXCEPT ![t] = "call"]
    /\ UNCHANGED <<passes, max_calls, methods, lock, top, left, sleep_time, outcome, invocations, last_issue>>

\* Line 42 and the end of the with block: the timestamp is recorded and the
\* lock released.
Record(t) ==
    /\ tpc[t] = "append"
    /\ calls' = [calls EXCEPT ![top[t]] = Append(calls[top[t]], 0)]
    /\ admitted' = [admitted EXCEPT ![top[t]] = Append(admitted[top[t]], 0)]
    /\ lock' = [lock EXCEPT ![top[t]] = 0]
    /\ tpc' = [tpc EXCEPT ![t] = "call"]
    /\ UNCHANGED <<passes, max_calls, methods, top, left, sleep_time, outcome, invocations, last_issue>>

\* Line 43, or get_all_stocks itself: the request goes out and its answer
\* is returned.
CallReturns(t) ==
    /\ tpc[t] = "call"
    /\ last_issue' = [last_issue EXCEPT ![top[t]] = 0]
    /\ invocations' = [invocations EXCEPT ![t] = @ + 1]
    /\ outcome' = [outcome EXCEPT ![t] = "returned"]
    /\ left' = [left EXCEPT ![t] = @ - 1]
    /\ tpc' = [tpc EXCEPT ![t] = "idle"]
    /\ UNCHANGED <<passes, max_calls, methods, calls, lock, top, sleep_time, admitted>>

\* Line 43, or get_all_stocks itself: the request goes out and the method
\* raises FinnhubAPIError, which wrapped() lets through.
CallRaises(t) ==
    /\ tpc[t] = "call"
    /\ last_issue' = [last_issue EXCEPT ![top[t]] = 0]
    /\ invocations' = [invocations EXCEPT ![t] = @ + 1]
    /\ outcome' = [outcome EXCEPT ![t] = "raised"]
    /\ left' = [left EXCEPT ![t] = @ - 1]
    /\ tpc' = [tpc EXCEPT ![t] = "idle"]
    /\ UNCHANGED <<passes, max_calls, methods, calls, lock, top, sleep_time, admitted>>

\* One tick passes.
Tick ==
    /\ calls' = [op \in LimitedOps |-> Older(calls[op])]
    /\ sleep_time' = [t \in DOMAIN sleep_time |-> IF sleep_time[t] > 0 THEN sleep_time[t] - 1 ELSE 0]
    /\ admitted' = [op \in LimitedOps |->
                       SelectSeq(Older(admitted[op]), LAMBDA age : age < PERIOD)]
    /\ last_issue' = [op \in Ops |->
                         IF last_issue[op] < PERIOD THEN last_issue[op] + 1 ELSE PERIOD]
    /\ UNCHANGED <<passes, max_calls, methods, lock, tpc, top, left, outcome, invocations>>

ThreadStep(t) ==
    \/ BeginCall(t)
    \/ Acquire(t)
    \/ Wake(t)
    \/ Record(t)
    \/ CallReturns(t)
    \/ CallRaises(t)

NextLimiter ==
    \/ \E t \in DOMAIN tpc : BeginCall(t)
    \/ \E t \in DOMAIN tpc : Acquire(t)
    \/ \E t \in DOMAIN tpc : Wake(t)
    \/ \E t \in DOMAIN tpc : Record(t)
    \/ \E t \in DOMAIN tpc : CallReturns(t)
    \/ \E t \in DOMAIN tpc : CallRaises(t)
    \/ Tick

SpecLimiter == InitLimiter /\ [][NextLimiter]_vars

\* main()'s thread alone, calling any of the four methods.
InitClient ==
    /\ NoPass
    /\ task = "client"
    /\ pc = "threads"
    /\ arg = None
    /\ max_calls = 1
    /\ methods = Ops
    /\ calls = [op \in LimitedOps |-> <<>>]
    /\ lock = [op \in LimitedOps |-> 0]
    /\ tpc = [t \in {1} |-> "idle"]
    /\ top = [t \in {1} |-> "get_all_stocks"]
    /\ left = [t \in {1} |-> CallsEach + 1]
    /\ sleep_time = [t \in {1} |-> 0]
    /\ outcome = [t \in {1} |-> "none"]
    /\ invocations = [t \in {1} |-> 0]
    /\ admitted = [op \in LimitedOps |-> <<>>]
    /\ last_issue = [op \in Ops |-> PERIOD]

SpecClient == InitClient /\ [][NextLimiter]_vars

\* The limiter of get_financials_reported: @RateLimiter(1, 1.25).
InitLimiterOne == InitLimiter /\ max_calls = 1

\* The scheduler runs every runnable thread, and time passes.
SpecLimiterFair ==
    /\ InitLimiterOne
    /\ [][NextLimiter]_vars
    /\ WF_vars(Tick)
    /\ \A t \in Threads : WF_vars(ThreadStep(t))

(***************************************************************************)
(* Properties.                                                             *)
(***************************************************************************)
\* Rows of the symbol of the current iteration.
SymbolRows == {r \in BagToSet(fin_rows) : r.symbol = Upper(Symbol)}

\* The symbol's feed has been walked and line 230-243 has run.
SymbolReconciled == pc = "f_next" /\ financials.t = "data"

DistinctKeys(rows) ==
    \A a, b \in 1..Len(rows) : a # b => Key(rows[a]) # Key(rows[b])

\* C1: the committed store never holds two FinancialSnapshot rows with the
\* same (symbol, year, quarter), whatever feeds the runs were given
\* (out of order, repeated periods).
C1_OneRowPerPeriod ==
    \A r \in BagToSet(fin_rows) :
        /\ CopiesIn(r, fin_rows) = 1
        /\ \A x \in BagToSet(fin_rows) : Key(x) = Key(r) => x = r

\* C1 witness: a feed that repeats a period was staged twice for a symbol
\* that already had rows, and the commit has been decided.
C1_Witness ==
    /\ SymbolReconciled
    /\ had_rows
    /\ Len(staged_log) = 2
    /\ Key(staged_log[1]) = Key(staged_log[2])

\* C2: when the symbol has a latest stored period, every snapshot staged for
\* it is strictly newer than that period: no insert is attempted for an
\* entry at or before it.
C2_NoInsertAtOrBeforeLatest ==
    (task = "financials" /\ ~Falsy(latest_period)) =>
        /\ \A a \in 1..Len(staged_log) :
              Later(PeriodOf(staged_log[a]), latest_period.v)
        /\ \A a \in 1..Len(pending) : Later(PeriodOf(pending[a]), latest_period.v)

\* C2 witness: a newer period was staged and then the boundary stopped the
\* loop before the end of the feed.
C2_Witness ==
    /\ pc = "f_commit"
    /\ ~Falsy(latest_period)
    /\ k <= Len(financials.data)
    /\ Len(staged_log) >= 1

\* The feed carries a year and a quarter in every entry and the pairs are
\* strictly decreasing in year-then-quarter order.
StrictlyDecreasing(feed) ==
    /\ \A a \in 1..Len(feed) : feed[a].year.t = "num" /\ feed[a].quarter.t = "num"
    /\ \A a, b \in 1..Len(feed) :
          a < b => Later(<<feed[a].year.v, feed[a].quarter.v>>,
                         <<feed[b].year.v, feed[b].quarter.v>>)

\* At least one of revenue, diluted EPS, net income is non-null in the entry.
HasNonNullConcept(data) ==
    LET c == ExtractConcepts(data.report)
    IN  \/ ~IsNa(c.revenue)
        \/ ~IsNa(c.earnings_per_share_diluted)
        \/ ~IsNa(c.net_income_loss)

\* The symbol's committed rows are one row per feed entry with a non-null
\* concept and nothing else.
OneRowPerUsefulEntry ==
    /\ {PeriodOf(r) : r \in SymbolRows} =
          {<<financials.data[a].year.v, financials.data[a].quarter.v>> :
               a \in {b \in 1..Len(financials.data) :
                          HasNonNullConcept(financials.data[b])}}
    /\ \A r \in SymbolRows :
          /\ CopiesIn(r, fin_rows) = 1
          /\ \A x \in SymbolRows : PeriodOf(x) = PeriodOf(r) => x = r

\* C3 as stated: for a symbol without stored rows and a strictly decreasing
\* feed, a run without persistence errors commits exactly one snapshot per
\* period with a non-null concept and none for any other period.
C3_Original ==
    (SymbolReconciled /\ ~had_rows /\ ~db_fault
        /\ StrictlyDecreasing(financials.data)) => OneRowPerUsefulEntry

NonZeroPeriods(feed) ==
    \A a \in 1..Len(feed) : feed[a].year.v # 0 /\ feed[a].quarter.v # 0

\* C3 amended: the same, for feeds whose years and quarters are all nonzero
\* (line 164 treats a year or quarter of 0 as missing and skips the entry).
C3_FreshSymbolGetsUsefulPeriods ==
    (SymbolReconciled /\ ~had_rows /\ ~db_fault
        /\ StrictlyDecreasing(financials.data)
        /\ NonZeroPeriods(financials.data)) => OneRowPerUsefulEntry

\* C3 witness: a fresh symbol, a two-entry decreasing feed with one useful
\* period and one without any concept, one row committed.
C3_Witness ==
    /\ SymbolReconciled /\ ~had_rows /\ ~db_fault
    /\ StrictlyDecreasing(financials.data)
    /\ NonZeroPeriods(financials.data)
    /\ Len(financials.data) = 2
    /\ Cardinality(SymbolRows) = 1
    /\ \E a \in 1..2 : ~HasNonNullConcept(financials.data[a])

\* C5 as stated: when one period's insert fails, only that insert is lost:
\* every period staged for the symbol is in the store once the symbol's
\* commit step is over (no other persistence error occurring).
C5_OnlyFailedInsertLost ==
    (SymbolReconciled /\ ~db_fault) =>
        \A a \in 1..Len(staged_log) :
            \E r \in SymbolRows : Key(r) = Key(staged_log[a])

\* C6: provider errors on some symbols leave the others alone: the loop
\* reaches the end of the symbol list, every metric snapshot staged in the run
\* is committed at its end, and every financial snapshot staged for a symbol
\* (whose own flush the store accepts) is committed when its iteration ends.
C6_ProviderErrorsIsolated ==
    /\ (pc \in {"done", "aborted"} /\ ~db_fault) => ~InLoop
    /\ (pc = "done" /\ task = "metrics") =>
          \A a \in 1..Len(staged_log) : CopiesIn(staged_log[a], metric_rows) >= 1
    /\ (SymbolReconciled /\ ~db_fault /\ DistinctKeys(staged_log)) =>
          \A a \in 1..Len(staged_log) : CopiesIn(staged_log[a], fin_rows) = 1

\* C6 witness: three symbols, the API call of the second raised, the
\* snapshots of the first and the third are committed.
C6_Witness ==
    /\ pc = "done" /\ task = "metrics"
    /\ Len(symbols_to_process) = 3
    /\ api_failed = {symbols_to_process[2]}
    /\ Len(staged_log) = 2
    /\ staged_log[1].symbol = symbols_to_process[1]
    /\ staged_log[2].symbol = symbols_to_process[3]
    /\ \A a \in 1..2 : CopiesIn(staged_log[a], metric_rows) >= 1

\* C7 as stated: whatever is raised while a symbol is processed, the run
\* ends only after the loop has visited every symbol.
C7_NoErrorEndsTheBatch ==
    pc \in {"done", "aborted"} => ~InLoop

\* C8 as stated: in every pass, when the processing of a symbol begins the
\* session holds no pending change of an earlier symbol.
C8_Original ==
    (pc \in {"f_loop", "m_loop", "c_loop"} /\ InLoop) => pending = <<>>

\* C8 amended: in the financials pass, when the processing of a symbol
\* begins the session holds no pending change, and while it is processed
\* every pending change is a row of that symbol.
C8_FinancialsTransactionPerSymbol ==
    /\ (pc = "f_loop" /\ InLoop) => pending = <<>>
    /\ pc \in {"f_entry", "f_commit"} =>
          \A a \in 1..Len(pending) : pending[a].symbol = Upper(Symbol)
    /\ pc \in {"f_next", "done"} => pending = <<>>

\* C8 witness: the second symbol of a financials run begins after the first
\* one committed rows.
C8_Witness ==
    /\ pc = "f_loop" /\ i = 2
    /\ symbols_to_process[1] \in symbols_with_new_reports


\* C4: after a second run against an unchanged feed every symbol has as many
\* committed rows as after the first run; the second run adds no report and
\* the store holds no duplicate (the re-offered periods are stopped at the
\* boundary or rejected as duplicates).
C4_SecondRunAddsNothing ==
    (pc = "done" /\ run_no >= 2) =>
        /\ \A s \in Symbols : RowCount(fin_rows, s) = rows_after_first[s]
        /\ total_added_count = 0
        /\ \A r \in BagToSet(fin_rows) : CopiesIn(r, fin_rows) = 1

\* C4 witness: the first run gave an empty symbol two rows and the second
\* run over the same feed has ended.
C4_Witness ==
    /\ pc = "done" /\ run_no = 2
    /\ rows_at_start["AAPL"] = 0
    /\ rows_after_first["AAPL"] = 2
    /\ RowCount(fin_rows, "AAPL") = 2


\* C9 as stated: in the companies refresh, every symbol whose profile
\* arrived with a valid name ends the run with its refreshed Company row
\* committed, whatever happened to other symbols (the store raising nothing).
C9_FetchedProfilesCommitted ==
    (pc = "done" /\ task = "companies" /\ ~db_fault) =>
        \A sym \in fetched_ok : CompanyRow(sym, "fresh") \in companies

\* C10 as stated: at no point of the companies refresh have more than 200
\* symbols been processed since the session's transaction began.
C10_TransactionBounded ==
    task = "companies" => in_transaction <= COMMIT_EVERY /\ Len(pending) <= COMMIT_EVERY

(***************************************************************************)
(* The nightly window of the metrics pass.                                 *)
(***************************************************************************)
\* hour >= 18 or hour < 2, on a local clock in hours.
InNightlyWindow(clock) == (clock % 24) >= 18 \/ (clock % 24) < 2

\* The day on whose evening the night of a clock inside the window began.
NightOf(clock) == IF (clock % 24) < 2 THEN (clock \div 24) - 1 ELSE clock \div 24

\* The current symbol has a stored snapshot whose timestamp (UTC) lies in the
\* nightly window the clock is in.
SnapshotInThisWindow ==
    \E r \in BagToSet(metric_rows) :
        /\ r.symbol = Symbol
        /\ InNightlyWindow(r.timestamp - 8)
        /\ NightOf(r.timestamp - 8) = NightOf(now)

\* C11: when the clock is inside the nightly window and the symbol has a
\* snapshot timestamped inside that window, the iteration of that symbol
\* makes no API call, stages nothing, and, when the loop moves on, has
\* counted the symbol as skipped.
C11_NoSecondSnapshotInWindow ==
    [][(pc = "m_loop" /\ InLoop /\ InNightlyWindow(now) /\ SnapshotInThisWindow) =>
          /\ api_calls' = api_calls
          /\ staged_log' = staged_log
          /\ Len(pending') <= Len(pending)
          /\ processed_count' = processed_count
          /\ (i' = i + 1 => skipped_count' = skipped_count + 1)]_vars

\* C11 witness: at 01:00 a symbol whose snapshot was taken at 20:00 of the
\* evening before has been skipped without any API call.
C11_Witness ==
    /\ pc = "m_loop" /\ now = 25 /\ i = 2
    /\ skipped_count = 1 /\ api_calls = 0
    /\ MetricRow(symbols_to_process[1], 20) \in BagToSet(metric_rows)

\* C16: every FinancialSnapshot in the session or in the table has a
\* non-null revenue, diluted EPS or net income.
C16_NoEmptySnapshot ==
    task = "financials" =>
        /\ \A a \in 1..Len(pending) :
              ~(IsNa(pending[a].revenue) /\ IsNa(pending[a].earnings_per_share_diluted)
                  /\ IsNa(pending[a].net_income_loss))
        /\ \A r \in BagToSet(fin_rows) :
              ~(IsNa(r.revenue) /\ IsNa(r.earnings_per_share_diluted)
                  /\ IsNa(r.net_income_loss))

\* C16 witness: a feed with a period without any of the three concepts and a
\* useful one has been walked, and only the useful one is in the table.
C16_Witness ==
    /\ SymbolReconciled /\ ~had_rows
    /\ Len(financials.data) = 2
    /\ \E a \in 1..2 : NothingUseful(ExtractConcepts(financials.data[a].report))
    /\ RowCount(fin_rows, Upper(Symbol)) = 1

\* C17: while the API credential or the connection string is missing, no
\* API call, no query and no write happens, and the only step taken is the
\* configuration error.
C17_ConfigErrorBeforeWork ==
    [][(~API_KEY \/ ~DATABASE_URL) =>
          /\ api_calls' = api_calls /\ api_calls = 0
          /\ store_queries' = store_queries /\ store_queries = 0
          /\ commits' = commits
          /\ db' = db
          /\ pending' = pending
          /\ pc' = "config_error"]_vars

\* C17 witness: the credential is set, the connection string is not, and
\* the process has ended with the configuration error.
C17_Witness == pc = "config_error" /\ API_KEY /\ ~DATABASE_URL

\* The walk over the symbol's feed is over: past the last entry, or stopped
\* at an entry that is not newer than the latest stored period.
FeedWalkOver ==
    /\ financials.t = "data"
    /\ \/ k > Len(financials.data)
       \/ /\ ~(Falsy(Current.year) \/ Falsy(Current.quarter))
          /\ AtBoundary

\* C18: in the financials pass a symbol sees at most one commit, issued
\* after the walk over its feed is over and only when a period was staged.
C18_OneCommitAfterTheFeed ==
    task = "financials" =>
        /\ commits <= 1
        /\ commits = 1 =>
              /\ FeedWalkOver
              /\ new_reports_for_symbol > 0
              /\ staged_log # <<>>

\* C18 witness: two periods were staged for a symbol and one commit was issued.
C18_Witness ==
    /\ task = "financials" /\ pc = "f_next"
    /\ commits = 1 /\ Len(staged_log) = 2

\* A value float() turns into a number, and that number.
IsNumber(x) == x.t = "num" \/ (x.t = "str" /\ x.v \in {"200", "10", "0"})

NumberOf(x) ==
    IF x.t = "num" THEN x.v
    ELSE CASE x.v = "200" -> 200 [] x.v = "10" -> 10 [] OTHER -> 0

ExpectedField(db_key, value) ==
    IF value.t = "None" THEN None
    ELSE IF db_key = "week52_high_date"
         THEN IF value.t = "str" /\ value.v = "2024-01-15"
              THEN [t |-> "date", v |-> value.v] ELSE None
         ELSE IF IsNumber(value) THEN Num(NumberOf(value)) ELSE None

\* C15 as stated: for every input mapping the extraction yields a record
\* with every destination field set: null for an absent or null source,
\* the parsed value when parsing succeeds, null when it fails, whatever the
\* other fields hold.
C15_EveryFieldExtracted ==
    (task = "extract" /\ pc = "returned") =>
        /\ result.t = "snapshot_data"
        /\ DOMAIN result.data = DbKeys
        /\ \A a \in 1..Len(KEY_MAPPING) :
              result.data[KEY_MAPPING[a][2]] =
                  ExpectedField(KEY_MAPPING[a][2], Get(arg, KEY_MAPPING[a][1]))

(***************************************************************************)
(* The rate gate.                                                          *)
(***************************************************************************)
\* C12: for one limiter and any interleaving of its callers, the log never
\* holds more than max_calls timestamps and no more than max_calls
\* admissions lie less than a period apart; with max_calls = 1, then, any
\* two consecutive admissions are at least a period apart.
C12_WindowNeverOverfull ==
    task = "limiter" =>
        \A op \in LimitedOps :
            /\ Len(calls[op]) <= max_calls
            /\ Len(admitted[op]) <= max_calls

\* C12 witness: a limiter of two calls per period has admitted two callers
\* within the period, and a third caller sleeps with the window full.
C12_Witness ==
    /\ task = "limiter" /\ max_calls = 2
    /\ \E t \in DOMAIN tpc :
          /\ tpc[t] = "sleep" /\ sleep_time[t] > 0
          /\ Len(calls[top[t]]) = 2 /\ Len(admitted[top[t]]) = 2

\* A thread sends a request in this step.
Issues(t) == invocations'[t] > invocations[t]

\* C13 as stated: whichever of the four methods two consecutive outbound
\* calls use, the second goes out at least a period after the first.
C13_Original ==
    [][\A t \in DOMAIN tpc :
          Issues(t) => \A op \in Ops : last_issue[op] >= PERIOD]_vars

\* C13 amended: each of the three decorated methods has its own gate, and
\* two calls of the same method pass it at least a period apart.
C13_SameMethodAdmissionsSpaced ==
    task = "client" =>
        /\ \A op \in LimitedOps : Len(admitted[op]) <= 1
        /\ \A t \in DOMAIN tpc :
              tpc[t] \in {"acquire", "sleep", "append"} => top[t] \in LimitedOps

\* C13 witness: the caller sleeps in the gate of a method it was admitted
\* to less than a period ago.
C13_Witness ==
    /\ task = "client"
    /\ tpc[1] = "sleep" /\ sleep_time[1] > 0
    /\ Len(admitted[top[1]]) = 1

\* Between taking the lock and releasing it.
InGate(t) == tpc[t] \in {"sleep", "append"}

AdmissionExclusive ==
    /\ \A t \in DOMAIN tpc : InGate(t) => lock[top[t]] = t
    /\ \A t, u \in DOMAIN tpc : (t # u /\ InGate(t) /\ InGate(u)) => top[t] # top[u]

\* C19 as stated: admission is mutually exclusive, and with one call per
\* period no two underlying calls of the method go out less than a period
\* apart.
C19_Original ==
    /\ []AdmissionExclusive
    /\ [][\A t \in DOMAIN tpc :
             (max_calls = 1 /\ Issues(t)) => last_issue[top[t]] >= PERIOD]_vars

\* C19 amended: admission is mutually exclusive and the admissions are
\* spaced to the configured rate; a waiting caller is outside the gate.
C19_AdmissionsSerialized ==
    task = "limiter" =>
        /\ AdmissionExclusive
        /\ \A op \in LimitedOps :
              /\ Len(admitted[op]) <= max_calls
              /\ lock[op] # 0 => InGate(lock[op]) /\ top[lock[op]] = op

\* C19 witness: one caller sleeps inside the gate while another waits for
\* the lock.
C19_Witness ==
    /\ task = "limiter"
    /\ \E t, u \in DOMAIN tpc :
          /\ tpc[t] = "sleep" /\ sleep_time[t] > 0
          /\ tpc[u] = "acquire" /\ top[u] = top[t]

AllCallsOver == \A t \in DOMAIN tpc : tpc[t] = "idle" /\ left[t] = 0

\* C20: every call through the gate completes; a caller outside the gate
\* does not hold the lock, whether its call returned or raised; func has run
\* exactly once when a call is over; and a call that raises leaves the log
\* of timestamps as it is.
C20_EveryCallCompletes ==
    /\ <>[]AllCallsOver
    /\ [](\A t \in DOMAIN tpc :
             /\ tpc[t] \in {"idle", "acquire", "call"} =>
                   \A op \in LimitedOps : lock[op] # t
             /\ outcome[t] \in {"returned", "raised"} => invocations[t] = 1
             /\ invocations[t] <= 1)
    /\ [][\A t \in DOMAIN tpc :
             (outcome'[t] = "raised" /\ outcome[t] # "raised") =>
                 /\ calls' = calls
                 /\ lock' = lock]_vars

\* C20 witness: a call has raised; its timestamp is the newest of the log,
\* the lock is free and func ran once.
C20_Witness ==
    /\ task = "limiter"
    /\ \E t \in DOMAIN tpc :
          /\ outcome[t] = "raised" /\ tpc[t] = "idle" /\ invocations[t] = 1
          /\ lock[top[t]] = 0
          /\ calls[top[t]] # <<>>
          /\ calls[top[t]][Len(calls[top[t]])] = 0

(***************************************************************************)
(* The three ways an entry of the feed leaves the loop body without a row. *)
(***************************************************************************)
\* `continue`: the for statement of line 159 takes the next entry, and
\* nothing of the session, the counters or the store has changed.
EntrySkipped ==
    /\ k' = k + 1
    /\ pc' = (IF k + 1 > Len(financials.data) THEN "f_commit" ELSE "f_entry")
    /\ UNCHANGED <<pending, new_reports_for_symbol, fin_rows, counters, i>>

\* `break`: the walk over this symbol's feed is over at this entry.
WalkEnded ==
    /\ k' = k
    /\ pc' = "f_commit"
    /\ UNCHANGED <<pending, new_reports_for_symbol, fin_rows, counters, i>>

\* The entry goes on to lines 208-227: it is staged or its staging fails.
EntryGoesOn ==
    /\ k' = k + 1
    /\ \/ new_reports_for_symbol' = new_reports_for_symbol + 1
       \/ db_fault'

\* What an entry does when `rejected` says which entries step 1 rejects.
EntryOutcome(rejected) ==
    IF rejected THEN EntrySkipped
    ELSE IF latest_period # None
              /\ NotNewer(Current.year.v, Current.quarter.v, latest_period.v)
        THEN WalkEnded
    ELSE IF NothingUseful(ExtractConcepts(Current.report)) THEN EntrySkipped
    ELSE EntryGoesOn

Positions(report) ==
    UNION {{<<sec, j>> : j \in 1..Len(report[sec])} : sec \in 1..Len(report)}

\* Scan order: section first, then item.
ScannedAfter(p, q) == p[1] > q[1] \/ (p[1] = q[1] /\ p[2] > q[2])

\* The value of the last line item whose concept is one of `concepts`;
\* nan (absent) when there is none.
LastValue(report, concepts) ==
    LET found == {p \in Positions(report) : report[p[1]][p[2]].concept \in concepts}
    IN  IF found = {} THEN NaN
        ELSE LET last == CHOOSE p \in found :
                             \A q \in found : q = p \/ ScannedAfter(p, q)
             IN  report[last[1]][last[2]].value

\* C22: each of revenue, diluted EPS and net income is the value of the last
\* matching line item in section-then-item order (for revenue either alias,
\* whichever comes last), null included, and absent only without a match.
C22_LastSeenWins ==
    (task = "scan" /\ pc = "returned") =>
        /\ result.revenue = LastValue(arg, {REVENUE_CONTRACT, REVENUES})
        /\ result.earnings_per_share_diluted = LastValue(arg, {EPS_DILUTED})
        /\ result.net_income_loss = LastValue(arg, {NET_INCOME})

\* C22 witness: the fallback alias in the second section overwrote the
\* primary alias of the first section with a null, and no EPS item was seen.
C22_Witness ==
    /\ task = "scan" /\ pc = "returned"
    /\ arg[1] = <<Item(REVENUE_CONTRACT, Num(200)), Item(NET_INCOME, Num(200))>>
    /\ arg[2] = <<Item(REVENUES, Num(10)), Item(REVENUES, None)>>
    /\ result.revenue = None
    /\ result.net_income_loss = Num(200)
    /\ result.earnings_per_share_diluted = NaN

(***************************************************************************)
(* The summary of a financials run (lines 254-263).                        *)
(***************************************************************************)
\* FinancialSnapshot rows of a symbol committed since main() began.
RowsGained(symbol) == RowCount(fin_rows, Upper(symbol)) - rows_at_start[Upper(symbol)]

RECURSIVE SumGained(_)
SumGained(S) ==
    IF S = {} THEN 0
    ELSE LET s == CHOOSE x \in S : TRUE
         IN  RowsGained(s) + SumGained(S \ {s})

\* C23 as stated: when a financials run ends, the total it reports is the
\* number of rows committed during the run, and the symbols it reports as
\* updated are exactly those that gained a committed row.
C23_SummaryMatchesStore ==
    (task = "financials" /\ pc = "done") =>
        /\ total_added_count = SumGained(Symbols)
        /\ symbols_with_new_reports = {s \in Symbols : RowsGained(s) > 0}

(***************************************************************************)
(* Metrics runs between 02:00 and 18:00.                                   *)
(***************************************************************************)
\* The local hour is in [2, 18).
Daytime(clock) == clock % 24 >= 2 /\ clock % 24 < 18

\* No stored snapshot is stamped later than the clock.
NoSnapshotFromLater ==
    \A r \in BagToSet(metric_rows) : r.timestamp <= ToUtc(now)

\* C24: with the local hour in [2, 18) the window of the check starts at
\* 18:00 of the current day, so the check is false for every symbol whatever
\* snapshots stamped at or before now are stored; no symbol of a run is
\* skipped: each one is fetched, and each one whose fetch returns its
\* metrics gets a new snapshot staged.
C24_DaytimeRunsNeverSkip ==
    /\ []((task = "metrics" /\ Daytime(now) /\ NoSnapshotFromLater) =>
              /\ WindowStart(now) = (now - (now % 24)) + 18
              /\ \A s \in Symbols :
                    ~was_updated_in_nightly_window(metric_rows, s, now))
    /\ [][(task = "metrics" /\ Daytime(now) /\ NoSnapshotFromLater
              /\ pc = "m_loop" /\ i' = i + 1) =>
                 /\ api_calls' = api_calls + 1
                 /\ skipped_count' = skipped_count
                 /\ processed_count' = processed_count + 1 =>
                        pending' = Append(pending, MetricRow(Symbol, now))]_vars

\* C24 witness: the second run of the same morning has fetched and staged a
\* snapshot for every symbol, though each symbol has a committed snapshot
\* of the first run.
C24_Witness ==
    /\ task = "metrics" /\ run_no = 2 /\ Daytime(now)
    /\ pc = "m_loop" /\ ~InLoop
    /\ skipped_count = 0
    /\ api_calls = Cardinality(Symbols)
    /\ Len(pending) = Cardinality(Symbols)
    /\ \A s \in Symbols :
          \E r \in BagToSet(metric_rows) :
              /\ r.symbol = s
              /\ r.timestamp \in {ToUtc(now), ToUtc(now - 1)}

====
